---- MODULE Spec2Model ----
(***************************************************************************)
(* Model of str_windows (src/lib.rs): an iterator over the overlapping     *)
(* substrings of a UTF-8 text that hold `size` scalar values each.         *)
(*                                                                         *)
(* A text is a sequence of bytes.  A byte is a record [ch, k]: ch names    *)
(* the scalar value the byte belongs to, k is the byte's position inside   *)
(* that scalar's encoding (k = 0 is the leading byte, k > 0 a              *)
(* continuation byte).  A &str is modelled by its byte content.            *)
(***************************************************************************)
EXTENDS Integers, Sequences, FiniteSets, TLC

\* ------------------------------------------------------------------ bounds
MaxChars == 4        \* longest text, in scalar values
MaxSize == 5         \* largest window size tried
MaxCalls == 7        \* next() calls made on one iterator
MaxHintChars == 5    \* longest text of the size_hint runs, in scalar values
MaxHintSize == 7     \* largest window size of the size_hint runs

\* usize::MAX, capped to the model checker's integer range.
USIZE_MAX == 2147483647

\* ------------------------------------------------------------ UTF-8 texts
\* One scalar value of each encoded width 1..4.
Alphabet == { [name |-> "a", width |-> 1], [name |-> "e'", width |-> 2],
              [name |-> "ni", width |-> 3], [name |-> ":D", width |-> 4] }

Texts == UNION { [1..n -> Alphabet] : n \in 0..MaxChars }

\* The UTF-8 encoding of one scalar value.
EncodeChar(c) == [k \in 1..c.width |-> [ch |-> c.name, k |-> k - 1]]

RECURSIVE Encode(_)
Encode(t) == IF t = << >> THEN << >> ELSE EncodeChar(Head(t)) \o Encode(Tail(t))

\* s.len(): length in bytes.
len(s) == Len(s)

\* str::is_char_boundary(i): 0 and len are boundaries, an index past the
\* end is not, an index inside is one iff its byte is not a continuation.
is_char_boundary(s, i) ==
    IF i = 0 \/ i = len(s) THEN TRUE
    ELSE IF i > len(s) THEN FALSE
    ELSE s[i + 1].k = 0

\* Byte slice s[a..b] (0-based, b exclusive).
Slice(s, a, b) == SubSeq(s, a + 1, b)

\* &s[a..b] panics unless a <= b <= len and both are char boundaries.
SliceOk(s, a, b) ==
    /\ a <= b
    /\ b <= len(s)
    /\ is_char_boundary(s, a)
    /\ is_char_boundary(s, b)

\* s.char_indices(): the byte offsets at which a scalar value starts.
char_indices(s) == { i \in 0..(len(s) - 1) : s[i + 1].k = 0 }

\* s.chars().count() for a slice that lies on char boundaries.
char_count(s) == Cardinality(char_indices(s))

\* s.chars(): the scalar values (by name) of a slice on char boundaries.
RECURSIVE chars(_)
chars(s) ==
    IF s = << >> THEN << >>
    ELSE IF Head(s).k = 0 THEN <<Head(s).ch>> \o chars(Tail(s))
    ELSE chars(Tail(s))

\* s.chars().size_hint(): ((len + 3) / 4, Some(len)).
chars_size_hint(s) == <<(len(s) + 3) \div 4, len(s)>>

\* -------------------------------------------------------------- the code
\* next_indice(s): the first char boundary at or after 1, or 1 when the
\* loop 1..=s.len() finds none (only for the empty string).
next_indice(s) ==
    IF \E i \in 1..len(s) : is_char_boundary(s, i)
    THEN CHOOSE i \in 1..len(s) :
            /\ is_char_boundary(s, i)
            /\ \A j \in 1..(i - 1) : ~is_char_boundary(s, j)
    ELSE 1

\* nth_indice(s, n): byte offset of the n-th (0-based) scalar value, or
\* s.len() when s has at most n scalar values.
nth_indice_bytes(s, n) == IF n < len(s) THEN n ELSE len(s)
nth_indice(s, n) ==
    IF char_count(s) > n
    THEN CHOOSE i \in char_indices(s) :
            Cardinality({ j \in char_indices(s) : j < i }) = n
    ELSE len(s)

\* Option<&str> / outcome of a call.
None == [tag |-> "None", val |-> << >>]
Some(w) == [tag |-> "Some", val |-> w]
Panic == [tag |-> "Panic", val |-> << >>]
NotCalled == [tag |-> "NotCalled", val |-> << >>]

\* str_windows(input, size): the constructed StrWindowsIter.
str_windows(in, sz) ==
    [inner |-> in, end |-> nth_indice(in, sz), size |-> sz]

\* Line 54: the degenerate case, size == 0.
degenerate_never(self) == FALSE
degenerate(self) == self.size = 0

\* Line 57: the window's end lies past the remaining text.
exhausted_ge(self) == self.end >= len(self.inner)
exhausted(self) == self.end > len(self.inner)

\* Line 58: return None; no field is written.
exhaust_restart(self) ==
    [self |-> [self EXCEPT !.end = nth_indice(self.inner, self.size)], ret |-> None]
exhaust_drain(self) == [self |-> [self EXCEPT !.inner = << >>], ret |-> None]
exhaust(self) == [self |-> self, ret |-> None]

\* Line 61: width in bytes of the scalar value that leaves the window.
skip_len(self) == next_indice(self.inner)

\* Line 62: width in bytes of the scalar value that enters the window
\* (1 when nothing follows the window).
trail_len_lead(self) == next_indice(self.inner)
trail_len_one(self) == 1
trail_len(self) == next_indice(Slice(self.inner, self.end, len(self.inner)))

\* Lines 60-65: take the window and slide by one scalar value.  Each slice
\* panics when out of range or off a char boundary; a panic leaves the
\* fields as written so far.  The subtraction on line 63 would underflow
\* when end1 < skip_len (a panic in a build with overflow checks); no
\* reachable state takes that branch, see SubtractionInRange.
advance(self) ==
    IF ~SliceOk(self.inner, 0, self.end)
    THEN [self |-> self, ret |-> Panic]
    ELSE IF ~SliceOk(self.inner, self.end, len(self.inner))
    THEN [self |-> self, ret |-> Panic]
    ELSE LET inner == Slice(self.inner, 0, self.end)
             end1 == self.end + trail_len(self)
             end2 == end1 - skip_len(self)
         IN  IF end1 < skip_len(self)
             THEN [self |-> [self EXCEPT !.end = end1], ret |-> Panic]
             ELSE IF ~SliceOk(self.inner, skip_len(self), len(self.inner))
             THEN [self |-> [self EXCEPT !.end = end2], ret |-> Panic]
             ELSE [self |-> [self EXCEPT
                               !.end = end2,
                               !.inner = Slice(self.inner, skip_len(self),
                                               len(self.inner))],
                   ret |-> Some(inner)]

\* StrWindowsIter::next(&mut self): the iterator after the call and the
\* value returned.
next(self) ==
    IF degenerate(self) THEN [self |-> self, ret |-> Some(<< >>)]
    ELSE IF exhausted(self) THEN exhaust(self)
    ELSE advance(self)

\* The closure f of size_hint: n.checked_sub(size - 1).unwrap_or(0).
f_no_sub(n, sz) == n
f_wrapping(n, sz) ==
    IF n >= sz - 1 THEN n - (sz - 1) ELSE USIZE_MAX - ((sz - 2) - n)
f(n, sz) == IF n >= sz - 1 THEN n - (sz - 1) ELSE 0

\* StrWindowsIter::size_hint(&self): [lo, hi] with hi an Option<usize>.
size_hint(self) ==
    IF self.size = 0
    THEN [lo |-> USIZE_MAX, hi |-> [tag |-> "None", val |-> 0]]
    ELSE LET h == chars_size_hint(self.inner)
         IN  [lo |-> f(h[1], self.size),
              hi |-> [tag |-> "Some", val |-> f(h[2], self.size)]]

\* ------------------------------------------------------------- the state
VARIABLES
    input,   \* the text handed to str_windows (never changes)
    iter,    \* the StrWindowsIter: [inner, end, size]
    ret,     \* outcome of the latest next() call
    out,     \* the windows returned so far, in order
    calls,   \* number of next() calls made
    hint     \* result of the latest size_hint() call

vars == <<input, iter, ret, out, calls, hint>>

NoHint == [called |-> FALSE, lo |-> 0, hi |-> [tag |-> "None", val |-> 0]]

Init ==
    /\ \E t \in Texts, sz \in 0..MaxSize :
          /\ input = Encode(t)
          /\ iter = str_windows(Encode(t), sz)
    /\ ret = NotCalled
    /\ out = << >>
    /\ calls = 0
    /\ hint = NoHint

\* One call of iter.next().  A panic unwinds; the iterator is not used again.
NextCall ==
    /\ ret.tag # "Panic"
    /\ calls < MaxCalls
    /\ LET r == next(iter)
       IN  /\ iter' = r.self
           /\ ret' = r.ret
           /\ out' = IF r.ret.tag = "Some" THEN Append(out, r.ret.val) ELSE out
    /\ calls' = calls + 1
    /\ UNCHANGED <<input, hint>>

\* One call of iter.size_hint().
SizeHintCall ==
    /\ ret.tag # "Panic"
    /\ LET h == size_hint(iter)
       IN  hint' = [called |-> TRUE, lo |-> h.lo, hi |-> h.hi]
    /\ UNCHANGED <<input, iter, ret, out, calls>>

Next == NextCall \/ SizeHintCall

Spec == Init /\ [][Next]_vars

\* Runs for size_hint(): texts of up to MaxHintChars scalar values of 1, 2
\* or 4 bytes (size_hint reads only the byte length), sizes up to
\* MaxHintSize.
HintTexts ==
    UNION { [1..n -> { c \in Alphabet : c.width # 3 }] : n \in 0..MaxHintChars }

InitHint ==
    /\ \E t \in HintTexts, sz \in 0..MaxHintSize :
          /\ input = Encode(t)
          /\ iter = str_windows(Encode(t), sz)
    /\ ret = NotCalled
    /\ out = << >>
    /\ calls = 0
    /\ hint = NoHint

SpecHint == InitHint /\ [][Next]_vars

\* ------------------------------------------------- vocabulary of the claims
Max(a, b) == IF a >= b THEN a ELSE b
Min(a, b) == IF a <= b THEN a ELSE b

\* Number of scalar values of the text.
N == char_count(input)

\* The scalar boundaries of s, and the k-th of them (k = 0 is offset 0).
Boundaries(s) == char_indices(s) \cup {len(s)}
Off(s, k) == CHOOSE i \in Boundaries(s) :
                Cardinality({ j \in Boundaries(s) : j < i }) = k

\* The substring of the text holding scalar values i .. i+size-1 (1-based).
Window(i) == Slice(input, Off(input, i - 1), Off(input, i - 1 + iter.size))

\* All windows of the text, in order.
Expected == [i \in 1..Max(N - iter.size + 1, 0) |-> Window(i)]

\* Number of windows next() would still return from self before it first
\* returns something else.
RECURSIVE WindowsLeftN(_, _)
WindowsLeftN(self, fuel) ==
    IF fuel = 0 THEN 0
    ELSE LET r == next(self)
         IN  IF r.ret.tag = "Some" THEN 1 + WindowsLeftN(r.self, fuel - 1) ELSE 0

WindowsLeft(self) == WindowsLeftN(self, len(self.inner) + 2)

\* Line 63 never underflows: whenever next() slides the window, the end
\* offset plus the entering width is at least the leaving width.
SubtractionInRange ==
    (~degenerate(iter) /\ ~exhausted(iter)) =>
        iter.end + trail_len(iter) >= skip_len(iter)

\* ------------------------------------------------------------------ claims

\* C1: for 1 <= size <= n, the values returned up to the first None are
\* exactly the n - size + 1 substrings T[i .. i+size) in order, each a byte
\* range of T between scalar boundaries: after k calls the windows returned
\* are the first min(k, n - size + 1) of them, and every later call
\* returns None.
C1_WindowsAreTheSubstrings ==
    (iter.size >= 1 /\ iter.size <= N) =>
        /\ out = SubSeq(Expected, 1, Min(calls, Len(Expected)))
        /\ calls > Len(Expected) => ret = None
        /\ (calls > 0 /\ calls <= Len(Expected)) => ret = Some(Expected[calls])

C1_Witness ==
    /\ iter.size >= 2
    /\ iter.size < N
    /\ ret = None
    /\ Len(out) >= 2
    /\ Cardinality({ input[i].ch : i \in 1..Len(input) }) >= 3

\* C2: for size > 0 the number of windows produced before exhaustion is
\* max(n - size + 1, 0); when size > n the first call returns None.
C2_WindowCount ==
    iter.size > 0 =>
        /\ ret = None => Len(out) = Max(N - iter.size + 1, 0)
        /\ (iter.size > N /\ calls = 1) => ret = None

\* C3: for size > 0 every window returned holds exactly size scalar values.
C3_WindowLength ==
    iter.size > 0 => \A i \in 1..Len(out) : char_count(out[i]) = iter.size

\* C4: no call of next() panics, for any text and any size.
C4_NoPanic == ret # Panic

\* C5: with size == 0 every call returns the empty substring and None is
\* never returned.
C5_DegenerateForever ==
    iter.size = 0 =>
        /\ calls > 0 => ret = Some(<< >>)
        /\ Len(out) = calls
        /\ \A i \in 1..Len(out) : out[i] = << >>

C5_Witness ==
    /\ iter.size = 0
    /\ calls = MaxCalls
    /\ Len(input) > 0
    /\ ret = Some(<< >>)

\* C6: fused: for size > 0, once a call has returned None every later call
\* returns None.
C6_Fused == [][(iter.size > 0 /\ ret = None) => ret' = None]_vars

C6_Witness ==
    /\ iter.size > 0
    /\ ret = None
    /\ Len(out) >= 1
    /\ calls >= Len(out) + 3

\* C7: for size > 0 the lower bound of size_hint() never exceeds the number
\* of windows the iterator still returns.
C7_LowerBoundSound ==
    iter.size > 0 => size_hint(iter).lo <= WindowsLeft(iter)

C7_Witness ==
    /\ iter.size > 1
    /\ calls > 0
    /\ hint.called
    /\ hint.lo = size_hint(iter).lo
    /\ hint.lo > 0

\* C8: for size > 0 the upper bound Some(u) of size_hint() is at least the
\* number of windows the iterator still returns, in every state.
C8_UpperBoundSound ==
    iter.size > 0 =>
        /\ size_hint(iter).hi.tag = "Some"
        /\ WindowsLeft(iter) <= size_hint(iter).hi.val

\* C9: for size > 0, window i+1 is window i without its first scalar value
\* followed by the scalar value of the text that follows window i.
C9_SlidingByOne ==
    iter.size > 0 =>
        \A i \in 1..(Len(out) - 1) :
            /\ i + iter.size <= N
            /\ chars(out[i]) # << >>
            /\ chars(out[i + 1]) =
                   Tail(chars(out[i])) \o <<chars(input)[i + iter.size]>>

C9_Witness ==
    /\ iter.size >= 2
    /\ Len(out) >= 3
    /\ Cardinality({ input[i].ch : i \in 1..Len(input) }) >= 3

\* C10: for size > 0, the first scalar values of the windows produced,
\* concatenated, are the first max(n - (size - 1), 0) scalar values of T.
C10_RoundTrip ==
    (iter.size > 0 /\ ret = None) =>
        /\ \A i \in 1..Len(out) : chars(out[i]) # << >>
        /\ [i \in 1..Len(out) |-> Head(chars(out[i]))] =
               SubSeq(chars(input), 1, Max(N - (iter.size - 1), 0))

\* The hint the specification prescribes for a remaining view of b bytes:
\* (usize::MAX, None) for size 0, else min_chars = ceil(b / 4), max_chars = b
\* and (max(min_chars - (size - 1), 0), Some(max(max_chars - (size - 1), 0))).
CeilDiv4(b) == IF b % 4 = 0 THEN b \div 4 ELSE (b \div 4) + 1

HintFormula(b, sz) ==
    IF sz = 0
    THEN [lo |-> USIZE_MAX, hi |-> [tag |-> "None", val |-> 0]]
    ELSE [lo |-> Max(CeilDiv4(b) - (sz - 1), 0),
          hi |-> [tag |-> "Some", val |-> Max(b - (sz - 1), 0)]]

\* The text "aaaaa": five ASCII scalar values, five bytes.
Ascii5 == Encode([i \in 1..5 |-> [name |-> "a", width |-> 1]])

\* The hints the tests list for a fresh iterator over a 5-byte ASCII text.
Ascii5Hint(sz) ==
    CASE sz = 0 -> <<USIZE_MAX, "None", 0>>
      [] sz = 1 -> <<2, "Some", 5>>
      [] sz = 2 -> <<1, "Some", 4>>
      [] sz = 3 -> <<0, "Some", 3>>
      [] sz = 4 -> <<0, "Some", 2>>
      [] sz = 5 -> <<0, "Some", 1>>
      [] OTHER  -> <<0, "Some", 0>>

\* C11: size_hint() returns the specified formula of the remaining view's
\* byte length and size, saturating at 0, in every state; a call on a fresh
\* iterator stores exactly that; on a fresh iterator over a 5-byte ASCII
\* text sizes 0..7 give the listed hints.
C11_SizeHintFormula ==
    /\ size_hint(iter) = HintFormula(len(iter.inner), iter.size)
    /\ (hint.called /\ calls = 0) =>
          /\ hint.lo = HintFormula(len(iter.inner), iter.size).lo
          /\ hint.hi = HintFormula(len(iter.inner), iter.size).hi
    /\ (hint.called /\ calls = 0 /\ input = Ascii5) =>
          <<hint.lo, hint.hi.tag, hint.hi.val>> = Ascii5Hint(iter.size)

C11_Witness ==
    /\ input = Ascii5
    /\ iter.size = 6
    /\ calls = 0
    /\ hint.called
    /\ hint.lo = 0
    /\ hint.hi = [tag |-> "Some", val |-> 0]

\* Byte offset in the text at which the remaining view starts (the view
\* always runs to the end of the text).
InnerStart == len(input) - len(iter.inner)

\* C12: in every reachable state the remaining view starts and ends on
\* scalar boundaries of the original text, and the end offset is either a
\* scalar boundary within the remaining view or greater than its length.
C12_ViewAndEndOnBoundaries ==
    /\ InnerStart >= 0
    /\ iter.inner = Slice(input, InnerStart, len(input))
    /\ is_char_boundary(input, InnerStart)
    /\ is_char_boundary(input, InnerStart + len(iter.inner))
    /\ \/ iter.end > len(iter.inner)
       \/ /\ 0 <= iter.end
          /\ iter.end <= len(iter.inner)
          /\ iter.end \in Boundaries(iter.inner)

C12_Witness ==
    /\ calls >= 2
    /\ ret.tag = "Some"
    /\ InnerStart > 0
    /\ iter.end > 1
    /\ iter.end < len(iter.inner)
    /\ \E i \in 1..len(iter.inner) : iter.inner[i].k > 0

\* C13: for size > 0, at construction and after every call that returned a
\* window: if the remaining view holds at least size scalar values, end is
\* the byte length of its first size scalar values; if the call that just
\* returned left fewer than size scalar values (nothing followed its
\* window), end is greater than the remaining view's length.
C13_EndTracksWindow ==
    (iter.size > 0 /\ ret.tag \in {"NotCalled", "Some"}) =>
        /\ char_count(iter.inner) >= iter.size =>
               iter.end = Off(iter.inner, iter.size)
        /\ (ret.tag = "Some" /\ char_count(iter.inner) < iter.size) =>
               iter.end > len(iter.inner)

C13_Witness ==
    /\ iter.size >= 2
    /\ ret.tag = "Some"
    /\ calls >= 1
    /\ char_count(iter.inner) > iter.size
    /\ iter.end = Off(iter.inner, iter.size)
    /\ iter.end > iter.size

\* C14: for size > 0 and a text of n scalar values (n = 0 included),
\* repeated next() calls return None within at most n + 1 calls, and every
\* call that returns a window shortens the remaining view by exactly one
\* scalar value (after k windows it holds n - k scalar values).
C14_ExhaustsWithinNPlusOne ==
    iter.size > 0 =>
        /\ calls >= N + 1 => ret = None
        /\ char_count(iter.inner) = N - Len(out)

\* C15: frame conditions: size never changes; a next() call that returns
\* None leaves the remaining view and end unchanged; a next() call with
\* size == 0 leaves them unchanged, so size_hint stays (usize::MAX, None);
\* size_hint() changes no field.
C15_Frame ==
    [][ /\ iter'.size = iter.size
        /\ (calls' # calls /\ ret' = None) => iter' = iter
        /\ (calls' # calls /\ iter.size = 0) =>
              /\ iter' = iter
              /\ size_hint(iter').lo = USIZE_MAX
              /\ size_hint(iter').hi.tag = "None"
        /\ calls' = calls => iter' = iter ]_vars

C15_Witness ==
    /\ iter.size >= 2
    /\ ret = None
    /\ hint.called
    /\ len(iter.inner) > 0
    /\ calls >= Len(out) + 2
    /\ Len(out) >= 2

====
